---- MODULE Spec2Model ----
(***************************************************************************)
(* Model of src/Decorators.ts (platapi): the exported decorators, the      *)
(* requirement records they hand to the registration utility (Utils), and  *)
(* the two transforms defined in the file (the Header name transform and   *)
(* the BearerToken value transform).                                       *)
(*                                                                         *)
(* JavaScript values are tagged records, so that a single function and a   *)
(* list of functions, or a string path and a list path, stay different     *)
(* values.  Strings whose characters matter (header names, header values)  *)
(* are sequences of one-character strings.                                 *)
(***************************************************************************)
EXTENDS Integers, Sequences, FiniteSets, TLC

VARIABLES store, applied, descriptor, target, token, out

vars == <<store, applied, descriptor, target, token, out>>

-----------------------------------------------------------------------------
(* Bounds of the model *)

MaxApps == 2

MaxNameLen == 2

MaxPieces == 3

-----------------------------------------------------------------------------
(* JavaScript values *)

Undefined == [type |-> "undefined"]

Bool(b) == [type |-> "boolean", bool |-> b]

Lit(s) == [type |-> "string", text |-> s]

Chars(s) == [type |-> "string", chars |-> s]

Fn(f) == [type |-> "function", fn |-> f]

Arr(xs) == [type |-> "array", items |-> xs]

Obj(o) == [type |-> "object", obj |-> o]

isArray(v) == v.type = "array"

-----------------------------------------------------------------------------
(* Utils (not part of the source set): what a generated decorator does     *)
(* when it is applied.  A decorator is described by the registration calls *)
(* it makes, the value it returns to the decorator runtime and the         *)
(* property keys it writes on the target.                                  *)

Decorator(calls) == [registers |-> calls, returns |-> Undefined, targetWrites |-> {}]

generateHTTPMethodDecorator(verb) ==
    Decorator(<<[kind |-> "endpoint", requirement |-> [verb |-> verb]]>>)

generateParameterDecorator(requirements) ==
    Decorator(<<[kind |-> "parameter", requirement |-> requirements]>>)

generateMethodDecorator(fragment) ==
    Decorator(<<[kind |-> "method", requirement |-> fragment]>>)

generateParameterSourceDecorator(path, isSingleValue, isRequired, nameTransform, valueTransform, security) ==
    [path |-> path, isSingleValue |-> isSingleValue, isRequired |-> isRequired,
     nameTransform |-> nameTransform, valueTransform |-> valueTransform,
     security |-> security]

-----------------------------------------------------------------------------
(* HTTP-method decorators *)

(* POST declared with the verb of the declaration below it *)
POSTWithNeighbourVerb == generateHTTPMethodDecorator("ALL")

POST == generateHTTPMethodDecorator("POST")

ALL == generateHTTPMethodDecorator("ALL")

GET == generateHTTPMethodDecorator("GET")

PUT == generateHTTPMethodDecorator("PUT")

PATCH == generateHTTPMethodDecorator("PATCH")

DELETE == generateHTTPMethodDecorator("DELETE")

OPTIONS == generateHTTPMethodDecorator("OPTIONS")

HEAD == generateHTTPMethodDecorator("HEAD")

TRACE == generateHTTPMethodDecorator("TRACE")

VerbNames == {"POST", "ALL", "GET", "PUT", "PATCH", "DELETE", "OPTIONS", "HEAD", "TRACE"}

VerbDecorator(name) ==
    CASE name = "POST" -> POST
      [] name = "ALL" -> ALL
      [] name = "GET" -> GET
      [] name = "PUT" -> PUT
      [] name = "PATCH" -> PATCH
      [] name = "DELETE" -> DELETE
      [] name = "OPTIONS" -> OPTIONS
      [] name = "HEAD" -> HEAD
      [] name = "TRACE" -> TRACE

-----------------------------------------------------------------------------
(* String.prototype.toLowerCase, on the characters the model uses *)

toLowerCaseChar(c) ==
    CASE c = "A" -> "a"
      [] c = "B" -> "b"
      [] c = "E" -> "e"
      [] c = "R" -> "r"
      [] c = "X" -> "x"
      [] OTHER -> c

toLowerCase(s) == [i \in 1..Len(s) |-> toLowerCaseChar(s[i])]

(* the name passed through as written *)
HeaderNameTransformAsWritten(name) == name

(* Header's name transform: (name) => name.toLowerCase() *)
HeaderNameTransform(name) == toLowerCase(name)

-----------------------------------------------------------------------------
(* token.replace(/Bearer\s+/i, ""): the regular expression is matched as   *)
(* the engine matches it, scanning start positions from the left.          *)

BearerPattern == <<"B", "e", "a", "r", "e", "r">>

(* Canonicalize of an ignoreCase, non-unicode pattern: toUpperCase *)
Canonicalize(c) ==
    CASE c = "a" -> "A"
      [] c = "b" -> "B"
      [] c = "e" -> "E"
      [] c = "r" -> "R"
      [] c = "x" -> "X"
      [] c = "c" -> "C"
      [] OTHER -> c

(* the class \s, on the characters the model uses *)
IsWhiteSpace(c) == c \in {" ", "\t"}

RECURSIVE MatchSpaces(_, _)
(* greedy \s*: the index of the first character at or after j that is not white space *)
MatchSpaces(s, j) ==
    IF j <= Len(s) /\ IsWhiteSpace(s[j]) THEN MatchSpaces(s, j + 1) ELSE j

(* the pattern tried at start position i: the index after the match, 0 when it fails *)
MatchAt(s, i) ==
    IF /\ i + Len(BearerPattern) - 1 <= Len(s)
       /\ \A k \in 1..Len(BearerPattern) :
              Canonicalize(s[i + k - 1]) = Canonicalize(BearerPattern[k])
       /\ MatchSpaces(s, i + Len(BearerPattern)) > i + Len(BearerPattern)
    THEN MatchSpaces(s, i + Len(BearerPattern))
    ELSE 0

RECURSIVE RegExpExec(_, _)
(* the first match at or after position i: <<start, end>>, <<0, 0>> when there is none *)
RegExpExec(s, i) ==
    IF i > Len(s) THEN <<0, 0>>
    ELSE IF MatchAt(s, i) # 0 THEN <<i, MatchAt(s, i)>>
    ELSE RegExpExec(s, i + 1)

(* the pattern without the repetition: /Bearer\s/i *)
BearerTokenValueTransformOneSpace(tok) ==
    LET m == RegExpExec(tok, 1)
    IN  IF m[1] = 0 THEN tok
        ELSE SubSeq(tok, 1, m[1] - 1) \o SubSeq(tok, m[1] + Len(BearerPattern) + 1, Len(tok))

(* BearerToken's value transform: token => token.replace(/Bearer\s+/i, "") *)
BearerTokenValueTransform(tok) ==
    LET m == RegExpExec(tok, 1)
    IN  IF m[1] = 0 THEN tok
        ELSE SubSeq(tok, 1, m[1] - 1) \o SubSeq(tok, m[2], Len(tok))

-----------------------------------------------------------------------------
(* Parameter-source decorators *)

BodyPart == generateParameterSourceDecorator(Arr(<<"request", "body">>), Undefined, Undefined, Undefined, Undefined, Undefined)

Body == generateParameterSourceDecorator(Arr(<<"request", "body">>), Bool(FALSE), Bool(FALSE), Undefined, Undefined, Undefined)

Cookie == generateParameterSourceDecorator(Arr(<<"request", "cookies">>), Undefined, Undefined, Undefined, Undefined, Undefined)

AllCookies == generateParameterSourceDecorator(Arr(<<"request", "cookies">>), Bool(FALSE), Undefined, Undefined, Undefined, Undefined)

Query == generateParameterSourceDecorator(Arr(<<"request", "query">>), Undefined, Undefined, Undefined, Undefined, Undefined)

(* AllQuery declared like Query, without the flag *)
AllQueryWithoutFlag == generateParameterSourceDecorator(Arr(<<"request", "query">>), Undefined, Undefined, Undefined, Undefined, Undefined)

AllQuery == generateParameterSourceDecorator(Arr(<<"request", "query">>), Bool(FALSE), Undefined, Undefined, Undefined, Undefined)

Path == generateParameterSourceDecorator(Arr(<<"request", "params">>), Undefined, Undefined, Undefined, Undefined, Undefined)

AllPath == generateParameterSourceDecorator(Arr(<<"request", "params">>), Bool(FALSE), Undefined, Undefined, Undefined, Undefined)

Header == generateParameterSourceDecorator(Arr(<<"request", "headers">>), Bool(TRUE), Bool(TRUE), Fn("HeaderNameTransform"), Undefined, Undefined)

AllHeaders == generateParameterSourceDecorator(Arr(<<"request", "headers">>), Bool(FALSE), Undefined, Undefined, Undefined, Undefined)

BearerSecurity ==
    Obj([securitySchemes |-> <<[description |-> "JWT Bearer Token", type |-> "http",
                                scheme |-> "bearer", bearerFormat |-> "JWT"]>>])

(* BearerToken declared without its two flags, as the single-value decorators are *)
BearerTokenWithoutFlags == generateParameterSourceDecorator(Arr(<<"request", "headers", "authorization">>), Undefined, Undefined, Undefined, Fn("BearerTokenValueTransform"), BearerSecurity)

BearerToken == generateParameterSourceDecorator(Arr(<<"request", "headers", "authorization">>), Bool(FALSE), Bool(FALSE), Undefined, Fn("BearerTokenValueTransform"), BearerSecurity)

Request == generateParameterSourceDecorator(Lit("request"), Bool(FALSE), Undefined, Undefined, Undefined, Undefined)

Response == generateParameterSourceDecorator(Lit("response"), Bool(FALSE), Undefined, Undefined, Undefined, Undefined)

Logger == generateParameterSourceDecorator(Arr(<<"response", "locals", "logger">>), Bool(FALSE), Undefined, Undefined, Undefined, Undefined)

SourceNames ==
    {"BodyPart", "Body", "Cookie", "AllCookies", "Query", "AllQuery", "Path", "AllPath",
     "Header", "AllHeaders", "BearerToken", "Request", "Response", "Logger"}

SourceDecorator(name) ==
    CASE name = "BodyPart" -> BodyPart
      [] name = "Body" -> Body
      [] name = "Cookie" -> Cookie
      [] name = "AllCookies" -> AllCookies
      [] name = "Query" -> Query
      [] name = "AllQuery" -> AllQuery
      [] name = "Path" -> Path
      [] name = "AllPath" -> AllPath
      [] name = "Header" -> Header
      [] name = "AllHeaders" -> AllHeaders
      [] name = "BearerToken" -> BearerToken
      [] name = "Request" -> Request
      [] name = "Response" -> Response
      [] name = "Logger" -> Logger

-----------------------------------------------------------------------------
(* Parameter and method decorators *)

(* Param building a decorator that registers nothing *)
ParamWithoutRegistration(requirements) == Decorator(<<>>)

Param(requirements) == generateParameterDecorator(requirements)

Optional == generateParameterDecorator([required |-> Bool(FALSE)])

(* Required declared with the flag of Optional *)
RequiredWithOptionalFlag == generateParameterDecorator([required |-> Bool(FALSE)])

Required == generateParameterDecorator([required |-> Bool(TRUE)])

(* ValidateRequest with the default of the ordering flag inverted *)
ValidateRequestDefaultTrue(validator, runBeforeMiddleware) ==
    generateMethodDecorator(
        [requestValidator |->
            [runBeforeMiddleware |->
                 IF runBeforeMiddleware = Undefined THEN Bool(TRUE) ELSE runBeforeMiddleware,
             handler |-> validator]])

ValidateRequest(validator, runBeforeMiddleware) ==
    generateMethodDecorator(
        [requestValidator |->
            [runBeforeMiddleware |->
                 IF runBeforeMiddleware = Undefined THEN Bool(FALSE) ELSE runBeforeMiddleware,
             handler |-> validator]])

FormatResponse(formatter, contentType) ==
    generateMethodDecorator([responseFormatter |-> formatter, responseContentType |-> contentType])

(* lodash castArray *)
castArray(value) == IF isArray(value) THEN value ELSE Arr(<<value>>)

(* Use without the normalisation *)
UseWithoutCastArray(middleware) == generateMethodDecorator([middleware |-> middleware])

Use(middleware) == generateMethodDecorator([middleware |-> castArray(middleware)])

Docs(openAPIDocs) == generateMethodDecorator([docs |-> openAPIDocs])

(* ErrorReturn recording the declared error as method metadata *)
ErrorReturnRegistering == generateMethodDecorator([errors |-> Arr(<<>>)])

(* () => (target, propertyKey, descriptor) => {} *)
ErrorReturn == [registers |-> <<>>, returns |-> Undefined, targetWrites |-> {}]

Throws == ErrorReturn

-----------------------------------------------------------------------------
(* Utils and the runtime (not part of the source set): calling a transform *)
(* a requirement carries, and applying a parameter-source decorator to a   *)
(* parameter with the name the caller gave (Undefined: no name).           *)

CallNameTransform(f, name) ==
    CASE f = Fn("HeaderNameTransform") -> HeaderNameTransform(name)

CallValueTransform(f, value) ==
    CASE f = Fn("BearerTokenValueTransform") -> BearerTokenValueTransform(value)

ParameterSource(cfg, name) ==
    generateParameterDecorator(
        [source |-> cfg.path,
         name |-> IF name = Undefined \/ cfg.nameTransform = Undefined
                  THEN name
                  ELSE Chars(CallNameTransform(cfg.nameTransform, name.chars)),
         isSingleValue |-> cfg.isSingleValue,
         required |-> cfg.isRequired,
         nameTransform |-> cfg.nameTransform,
         valueTransform |-> cfg.valueTransform,
         security |-> cfg.security])

-----------------------------------------------------------------------------
(* Inputs *)

Methods == {"list", "create"}

NameAlphabet == {"A", "a", "X", "-"}

RECURSIVE StringsUpTo(_, _)
StringsUpTo(alphabet, n) ==
    IF n = 0 THEN {<<>>}
    ELSE LET shorter == StringsUpTo(alphabet, n - 1)
         IN  shorter \cup {Append(s, c) : s \in shorter, c \in alphabet}

(* names given to Header under SpecHeader *)
HeaderNames == StringsUpTo(NameAlphabet, MaxNameLen) \ {<<>>}

(* names given to the parameter-source decorators under Spec *)
SampleNames == {Chars(<<"X", "-", "a">>), Undefined}

(* a whole-value decorator is given no name *)
NamesFor(d) ==
    IF SourceDecorator(d).isSingleValue = Bool(FALSE) THEN {Undefined} ELSE SampleNames

Handlers == {Fn("auth"), Fn("audit")}

MiddlewareInputs ==
    {Fn("auth"), Arr(<<Fn("auth")>>), Arr(<<Fn("auth"), Fn("audit")>>),
     Arr(<<Fn("audit"), Fn("auth")>>), Arr(<<>>)}

ContentTypes == {Undefined, Lit("text/csv")}

RunBeforeInputs == {Undefined, Bool(FALSE), Bool(TRUE)}

DocsInputs == {Obj([summary |-> "List"]), Obj([deprecated |-> TRUE])}

ParamInputs ==
    {[required |-> Bool(TRUE), source |-> Arr(<<"request", "ip">>)],
     [source |-> Arr(<<"request", "session">>)]}

TokenAtoms ==
    {<<"B", "e", "a", "r", "e", "r">>, <<"b", "e", "a", "r", "e", "r">>,
     <<"B", "E", "A", "R", "E", "R">>, <<"B", "e", "a", "r", "e">>,
     <<" ">>, <<"\t">>, <<"x">>, <<"a", "b", "c", "1", "2", "3">>}

RECURSIVE Concats(_)
Concats(n) ==
    IF n = 0 THEN {<<>>}
    ELSE LET shorter == Concats(n - 1)
         IN  shorter \cup {s \o a : s \in shorter, a \in TokenAtoms}

(* header values the runtime reads under SpecBearer *)
Tokens == Concats(MaxPieces)

-----------------------------------------------------------------------------
(* State                                                                   *)
(*   store       the registration calls received by Utils, in order        *)
(*   applied     the decorator applications made so far (history)          *)
(*   descriptor  the property descriptor of each method of the class       *)
(*   target      the property keys of the class prototype                  *)
(*   token, out  a header value read by the runtime and its transformed    *)
(*               value                                                     *)

InitClass ==
    /\ store = <<>>
    /\ applied = <<>>
    /\ descriptor = [m \in Methods |-> [value |-> Fn(m), writable |-> TRUE]]
    /\ target = Methods

Init ==
    /\ InitClass
    /\ token = <<>>
    /\ out = Undefined

(* the decorator runtime applies decorator dec, written as dname(args), to method m *)
Apply(dname, args, dec, m) ==
    /\ store' = store \o [i \in 1..Len(dec.registers) |->
                             [kind |-> dec.registers[i].kind,
                              requirement |-> dec.registers[i].requirement,
                              method |-> m]]
    /\ applied' = Append(applied, [decorator |-> dname, args |-> args, method |-> m,
                                   at |-> Len(store), calls |-> Len(dec.registers)])
    /\ descriptor' = [descriptor EXCEPT ![m] = IF dec.returns = Undefined THEN @ ELSE dec.returns]
    /\ target' = target \cup dec.targetWrites
    /\ UNCHANGED <<token, out>>

ApplyVerb(v, m) == Apply(v, <<>>, VerbDecorator(v), m)

ApplySource(d, name, m) == Apply(d, <<name>>, ParameterSource(SourceDecorator(d), name), m)

ApplyParam(r, m) == Apply("Param", <<r>>, Param(r), m)

ApplyOptional(m) == Apply("Optional", <<>>, Optional, m)

ApplyRequired(m) == Apply("Required", <<>>, Required, m)

ApplyValidateRequest(v, b, m) == Apply("ValidateRequest", <<v, b>>, ValidateRequest(v, b), m)

ApplyFormatResponse(f, c, m) == Apply("FormatResponse", <<f, c>>, FormatResponse(f, c), m)

ApplyUse(mw, m) == Apply("Use", <<mw>>, Use(mw), m)

ApplyDocs(d, m) == Apply("Docs", <<d>>, Docs(d), m)

ApplyErrorReturn(m) == Apply("ErrorReturn", <<>>, ErrorReturn, m)

ApplyThrows(m) == Apply("Throws", <<>>, Throws, m)

(* the runtime reads a header value through a registered parameter requirement *)
ExtractValue(i) ==
    /\ store[i].kind = "parameter"
    /\ store[i].requirement.valueTransform # Undefined
    /\ out = Undefined
    /\ out' = Chars(CallValueTransform(store[i].requirement.valueTransform, token))
    /\ UNCHANGED <<store, applied, descriptor, target, token>>

CanApply == Len(applied) < MaxApps

Next ==
    \/ \E m \in Methods, v \in VerbNames : CanApply /\ ApplyVerb(v, m)
    \/ \E m \in Methods, d \in SourceNames : \E n \in NamesFor(d) : CanApply /\ ApplySource(d, n, m)
    \/ \E m \in Methods, r \in ParamInputs : CanApply /\ ApplyParam(r, m)
    \/ \E m \in Methods : CanApply /\ ApplyOptional(m)
    \/ \E m \in Methods : CanApply /\ ApplyRequired(m)
    \/ \E m \in Methods, v \in Handlers, b \in RunBeforeInputs : CanApply /\ ApplyValidateRequest(v, b, m)
    \/ \E m \in Methods, f \in Handlers, c \in ContentTypes : CanApply /\ ApplyFormatResponse(f, c, m)
    \/ \E m \in Methods, mw \in MiddlewareInputs : CanApply /\ ApplyUse(mw, m)
    \/ \E m \in Methods, d \in DocsInputs : CanApply /\ ApplyDocs(d, m)
    \/ \E m \in Methods : CanApply /\ ApplyErrorReturn(m)
    \/ \E m \in Methods : CanApply /\ ApplyThrows(m)

Spec == Init /\ [][Next]_vars

(* Header(X) applied to parameters, X any name over NameAlphabet *)
NextHeader ==
    \E n \in HeaderNames : CanApply /\ ApplySource("Header", Chars(n), "list")

SpecHeader == Init /\ [][NextHeader]_vars

(* BearerToken applied to a parameter, then the runtime reads a header value through it *)
InitBearer ==
    /\ InitClass
    /\ token \in Tokens
    /\ out = Undefined

NextBearer ==
    \/ \E m \in Methods : CanApply /\ ApplySource("BearerToken", Undefined, m)
    \/ \E i \in 1..Len(store) : ExtractValue(i)

SpecBearer == InitBearer /\ [][NextBearer]_vars

-----------------------------------------------------------------------------
(* Properties *)

(* the record handed to Utils by the i-th application *)
Registered(i) == store[applied[i].at + 1]

AppliedOf(names) == {i \in DOMAIN applied : applied[i].decorator \in names}

(* C1: applying the verb decorator named V registers, for the decorated    *)
(* method, one endpoint requirement whose verb field is V, the requirement *)
(* generateHTTPMethodDecorator produces for V; two verb decorators of      *)
(* different names never register the same verb.                           *)
C1_VerbEqualsName ==
    /\ \A i \in AppliedOf(VerbNames) :
        /\ applied[i].calls = 1
        /\ Registered(i).kind = "endpoint"
        /\ Registered(i).method = applied[i].method
        /\ Registered(i).requirement.verb = applied[i].decorator
        /\ <<[kind |-> "endpoint", requirement |-> Registered(i).requirement]>>
               = generateHTTPMethodDecorator(applied[i].decorator).registers
    /\ \A i, j \in AppliedOf(VerbNames) :
        applied[i].decorator # applied[j].decorator
            => Registered(i).requirement.verb # Registered(j).requirement.verb

C1_Witness ==
    /\ Len(applied) = 2
    /\ applied[1].decorator = "POST"
    /\ applied[2].decorator = "TRACE"
    /\ Len(store) = 2
    /\ store[1].requirement.verb = "POST"

CaseVariants == {{"A", "a"}, {"X", "x"}}

DifferOnlyInCase(a, b) ==
    /\ Len(a) = Len(b)
    /\ \A k \in 1..Len(a) : a[k] = b[k] \/ {a[k], b[k]} \in CaseVariants

IsLowerCaseOf(lower, name) ==
    /\ DifferOnlyInCase(lower, name)
    /\ \A k \in 1..Len(lower) : lower[k] \notin {"A", "X"}

(* C2: Header(X) registers a parameter requirement whose name is X in      *)
(* lower case, read as a single value under request/headers; names that    *)
(* differ only in letter case register the same name.                      *)
C2_HeaderNameLowercased ==
    /\ \A i \in AppliedOf({"Header"}) :
        /\ applied[i].calls = 1
        /\ Registered(i).kind = "parameter"
        /\ Registered(i).requirement.name.type = "string"
        /\ IsLowerCaseOf(Registered(i).requirement.name.chars, applied[i].args[1].chars)
        /\ Registered(i).requirement.isSingleValue = Bool(TRUE)
        /\ Registered(i).requirement.source = Arr(<<"request", "headers">>)
    /\ \A i, j \in AppliedOf({"Header"}) :
        DifferOnlyInCase(applied[i].args[1].chars, applied[j].args[1].chars)
            => Registered(i).requirement.name = Registered(j).requirement.name

C2_Witness ==
    /\ Len(applied) = 2
    /\ applied[1].args[1] = Chars(<<"X", "A">>)
    /\ applied[2].args[1] = Chars(<<"X", "a">>)
    /\ store[1].requirement.name = Chars(<<"x", "a">>)
    /\ store[2].requirement.name = Chars(<<"x", "a">>)

BearerWords ==
    {w \in [1..6 -> {"B", "b", "E", "e", "A", "a", "R", "r"}] :
        /\ w[1] \in {"B", "b"}
        /\ w[2] \in {"E", "e"}
        /\ w[3] \in {"A", "a"}
        /\ w[4] \in {"R", "r"}
        /\ w[5] \in {"E", "e"}
        /\ w[6] \in {"R", "r"}}

(* the word Bearer, in any letter case, stands at i and white space follows it *)
OccursAt(s, i) ==
    /\ i + 6 <= Len(s)
    /\ SubSeq(s, i, i + 5) \in BearerWords
    /\ s[i + 6] \in {" ", "\t"}

(* s without the block of characters i..j *)
Without(s, i, j) == SubSeq(s, 1, i - 1) \o SubSeq(s, j + 1, Len(s))

BearerAbc123 == <<"B", "e", "a", "r", "e", "r", " ", "a", "b", "c", "1", "2", "3">>

C4_UseNormalizesToList ==
    /\ \A i \in AppliedOf({"Use"}) :
        /\ applied[i].calls = 1
        /\ Registered(i).requirement.middleware.type = "array"
        /\ Registered(i).requirement.middleware.items =
               IF applied[i].args[1].type = "array"
               THEN applied[i].args[1].items
               ELSE <<applied[i].args[1]>>
    /\ \A i, j \in AppliedOf({"Use"}) :
        applied[j].args[1] = Arr(<<applied[i].args[1]>>)
            => Registered(i).requirement = Registered(j).requirement

C4_Witness ==
    /\ Len(applied) = 2
    /\ applied[1].decorator = "Use"
    /\ applied[1].args[1] = Fn("auth")
    /\ applied[2].decorator = "Use"
    /\ applied[2].args[1] = Arr(<<Fn("auth")>>)
    /\ store[1].requirement = store[2].requirement
    /\ store[1].requirement.middleware = Arr(<<Fn("auth")>>)

(* C5: the records of Optional and Required hold the required flag and     *)
(* nothing else, false for Optional and true for Required.                 *)
C5_OptionalRequiredOnlyFlag ==
    /\ \A i \in AppliedOf({"Optional", "Required"}) :
        /\ applied[i].calls = 1
        /\ Registered(i).kind = "parameter"
        /\ DOMAIN Registered(i).requirement = {"required"}
    /\ \A i \in AppliedOf({"Optional"}) : Registered(i).requirement.required = Bool(FALSE)
    /\ \A i \in AppliedOf({"Required"}) : Registered(i).requirement.required = Bool(TRUE)

C5_Witness ==
    /\ Len(applied) = 2
    /\ applied[1].decorator = "Optional"
    /\ applied[2].decorator = "Required"
    /\ store[1].requirement # store[2].requirement

IsNoOpStep ==
    /\ Len(applied') = Len(applied) + 1
    /\ applied'[Len(applied')].decorator \in {"ErrorReturn", "Throws"}

(* C6: an application of ErrorReturn() or Throws(), wherever it comes      *)
(* among the other applications, makes no registration call and leaves the *)
(* store, the descriptors and the target as they were.                     *)
C6_ErrorReturnNoOp ==
    [][IsNoOpStep =>
          /\ applied'[Len(applied')].calls = 0
          /\ store' = store
          /\ descriptor' = descriptor
          /\ target' = target]_vars

C6_Witness ==
    /\ Len(applied) = 2
    /\ applied[1].decorator = "GET"
    /\ applied[2].decorator = "Throws"
    /\ Len(store) = 1

Registering == VerbNames \cup SourceNames \cup
    {"Param", "Optional", "Required", "ValidateRequest", "FormatResponse", "Use", "Docs"}

C8_FragmentHoldsOwnConcern ==
    /\ \A i \in AppliedOf({"ValidateRequest", "FormatResponse", "Docs", "Use"}) :
        /\ applied[i].calls = 1
        /\ Registered(i).kind = "method"
    /\ \A i \in AppliedOf({"ValidateRequest"}) :
        /\ DOMAIN Registered(i).requirement = {"requestValidator"}
        /\ DOMAIN Registered(i).requirement.requestValidator = {"handler", "runBeforeMiddleware"}
        /\ Registered(i).requirement.requestValidator.handler = applied[i].args[1]
        /\ Registered(i).requirement.requestValidator.runBeforeMiddleware =
               IF applied[i].args[2] = Undefined THEN Bool(FALSE) ELSE applied[i].args[2]
    /\ \A i \in AppliedOf({"FormatResponse"}) :
        /\ DOMAIN Registered(i).requirement = {"responseFormatter", "responseContentType"}
        /\ Registered(i).requirement.responseFormatter = applied[i].args[1]
        /\ Registered(i).requirement.responseContentType = applied[i].args[2]
    /\ \A i \in AppliedOf({"Docs"}) :
        /\ DOMAIN Registered(i).requirement = {"docs"}
        /\ Registered(i).requirement.docs = applied[i].args[1]
    /\ \A i \in AppliedOf({"Use"}) :
        DOMAIN Registered(i).requirement = {"middleware"}

C8_Witness ==
    /\ Len(applied) = 2
    /\ applied[1].decorator = "ValidateRequest"
    /\ applied[1].args[2] = Undefined
    /\ store[1].requirement.requestValidator.runBeforeMiddleware = Bool(FALSE)
    /\ applied[2].decorator = "FormatResponse"
    /\ applied[2].args[2] = Undefined
    /\ store[2].requirement.responseContentType = Undefined

SourcePairs ==
    {<<"BodyPart", "Body", "body">>, <<"Cookie", "AllCookies", "cookies">>,
     <<"Query", "AllQuery", "query">>, <<"Path", "AllPath", "params">>,
     <<"Header", "AllHeaders", "headers">>}

(* C9: in each pair the two decorators register the same source path,      *)
(* request/<collection>; the whole-collection one has the single-value     *)
(* flag false, the single-value one has not; Request, Response and Logger  *)
(* have the flag false and the paths request, response and                 *)
(* response/locals/logger.                                                 *)
C9_SourcePathsAndFlags ==
    /\ \A p \in SourcePairs :
        /\ \A i \in AppliedOf({p[1], p[2]}) :
            Registered(i).requirement.source = Arr(<<"request", p[3]>>)
        /\ \A i \in AppliedOf({p[1]}) : Registered(i).requirement.isSingleValue # Bool(FALSE)
        /\ \A i \in AppliedOf({p[2]}) : Registered(i).requirement.isSingleValue = Bool(FALSE)
    /\ \A i \in AppliedOf({"Request", "Response", "Logger"}) :
        /\ Registered(i).requirement.isSingleValue = Bool(FALSE)
        /\ Registered(i).requirement.source =
               CASE applied[i].decorator = "Request" -> Lit("request")
                 [] applied[i].decorator = "Response" -> Lit("response")
                 [] applied[i].decorator = "Logger" -> Arr(<<"response", "locals", "logger">>)

C9_Witness ==
    /\ Len(applied) = 2
    /\ applied[1].decorator = "Query"
    /\ applied[2].decorator = "AllQuery"
    /\ store[1].requirement.source = store[2].requirement.source
    /\ store[1].requirement.isSingleValue # store[2].requirement.isSingleValue

(* C10: among the parameter-source decorators only BearerToken registers a *)
(* security contribution: one scheme, of type http, scheme bearer, format  *)
(* JWT; its path is request/headers/authorization, read as a whole value,  *)
(* not required, with no name transform.                                   *)
C10_OnlyBearerTokenHasSecurity ==
    /\ \A i \in AppliedOf(SourceNames) :
        Registered(i).requirement.security # Undefined <=> applied[i].decorator = "BearerToken"
    /\ \A i \in AppliedOf({"BearerToken"}) :
        /\ Len(Registered(i).requirement.security.obj.securitySchemes) = 1
        /\ Registered(i).requirement.security.obj.securitySchemes[1].type = "http"
        /\ Registered(i).requirement.security.obj.securitySchemes[1].scheme = "bearer"
        /\ Registered(i).requirement.security.obj.securitySchemes[1].bearerFormat = "JWT"
        /\ Registered(i).requirement.source = Arr(<<"request", "headers", "authorization">>)
        /\ Registered(i).requirement.isSingleValue = Bool(FALSE)
        /\ Registered(i).requirement.required = Bool(FALSE)
        /\ Registered(i).requirement.nameTransform = Undefined

C10_Witness ==
    /\ Len(applied) = 2
    /\ applied[1].decorator = "BearerToken"
    /\ applied[2].decorator = "Header"
    /\ store[1].requirement.security # Undefined
    /\ store[2].requirement.security = Undefined

====
